---------------------------- MODULE Spec2Model ----------------------------
(***************************************************************************)
(* A model of the AVM index Reader (package avm): Search, Aggregate, the   *)
(* List* readers and dressTransactions.                                    *)
(*                                                                         *)
(* The Reader holds a connection handle and a chain id and nothing else    *)
(* (Reader, NewReader): no call leaves anything behind in it.  A behaviour *)
(* of this model is therefore one request made of a freshly constructed    *)
(* Reader: Init is the state after NewReader and every action is one whole *)
(* entry point, from its first statement to its return.  The storage       *)
(* engine, the query-parameter builder and the identifier parsers are      *)
(* outside the package; what they answer is an input of the action, drawn  *)
(* from the bounded sets below.                                            *)
(*                                                                         *)
(* Go strings that the code parses (token amounts) are sequences of        *)
(* one-character strings, so that parsing and formatting are computed.     *)
(* time.Time and time.Duration are integers counted in ticks, with         *)
(* TicksPerSecond ticks to the second, so that Time.Unix() and             *)
(* int64(Duration.Seconds()) truncate as they do in the code.  Go's        *)
(* float64 division and math.Ceil are computed exactly (the bounds keep    *)
(* every quotient far inside the range where float64 is exact enough).     *)
(***************************************************************************)
EXTENDS Integers, Sequences, FiniteSets, TLC

VARIABLES call

vars == <<call>>

\* ------------------------------------------------------------------ bounds

\* Resolution of the clock: ticks per second (time.Time counts nanoseconds).
TicksPerSecond == 2

\* The second at which the requested ranges of the model start.
BaseSeconds == 10

\* Longest short range requested, in seconds past BaseSeconds.
MaxSpanSeconds == 3

\* Largest bucket index a grouped row of the model carries.
MaxIdx == 2

\* Seconds between time.Time{} and the epoch.
ZeroTimeSeconds == 100000

\* Largest offset and limit of a list request, and most rows of a page.
MaxOffset == 2

MaxLimit == 3

MaxRows == 3

\* What a COUNT query answers.
TotalRows == 9

\* --------------------------------------------------------------- constants

MaxAggregateIntervalCount == 20000

MinSearchQueryLength == 1

ErrAggregateIntervalCountTooLarge == "requesting too many intervals"

ErrFailedToParseStringAsBigInt == "failed to parse string to big.Int"

ErrSearchQueryTooShort == "search query too short"

\* An error handed back by the storage engine (dbr), passed on unchanged.
ErrStorage == "storage error"

\* Go's nil error.
NoErr == "nil"

\* A nil pointer result.
Nil == [nil |-> TRUE]

\* ------------------------------------------------------------------- time

\* time.Time{}: January 1, year 1, 00:00:00 UTC, which is ZeroTimeSeconds
\* seconds before the epoch (62135596800 in Go; here an instant before every
\* other instant of the model, within the range of TLC's integers).
ZeroTime == 0 - ZeroTimeSeconds * TicksPerSecond

IsZero(t) == t = ZeroTime

\* Time.Unix(): the seconds since the epoch, sub-second part dropped.
Unix(t) == t \div TicksPerSecond

\* time.Unix(sec, 0).UTC()
TimeUnix(sec) == sec * TicksPerSecond

\* int64(d.Seconds()): conversion of the float to int64 truncates toward zero.
DurationSeconds(d) == IF d >= 0 THEN d \div TicksPerSecond ELSE 0 - ((0 - d) \div TicksPerSecond)

\* math.Ceil(a / b) for b > 0
CeilDiv(a, b) == 0 - ((0 - a) \div b)

\* --------------------------------------------------------- amount arithmetic

Digits == {"0", "1", "2", "3", "4", "5", "6", "7", "8", "9"}

DigitVal(c) ==
  CASE c = "0" -> 0 [] c = "1" -> 1 [] c = "2" -> 2 [] c = "3" -> 3
    [] c = "4" -> 4 [] c = "5" -> 5 [] c = "6" -> 6 [] c = "7" -> 7
    [] c = "8" -> 8 [] c = "9" -> 9

DigitChar(d) ==
  CASE d = 0 -> "0" [] d = 1 -> "1" [] d = 2 -> "2" [] d = 3 -> "3"
    [] d = 4 -> "4" [] d = 5 -> "5" [] d = 6 -> "6" [] d = 7 -> "7"
    [] d = 8 -> "8" [] d = 9 -> "9"

\* The value of a run of decimal digits.
RECURSIVE DigitsVal(_)
DigitsVal(s) ==
  IF s = <<>> THEN 0
  ELSE 10 * DigitsVal(SubSeq(s, 1, Len(s) - 1)) + DigitVal(s[Len(s)])

\* The part of an amount string after its optional sign.
Unsigned(s) == IF s # <<>> /\ s[1] \in {"+", "-"} THEN Tail(s) ELSE s

\* big.Int.SetString(s, 10) reports ok: an optional sign, then one or more
\* decimal digits and nothing else.
BigIntOK(s) ==
  /\ Unsigned(s) # <<>>
  /\ \A i \in 1..Len(Unsigned(s)) : Unsigned(s)[i] \in Digits

\* The value big.Int.SetString(s, 10) sets, when it reports ok.
BigIntVal(s) ==
  IF s[1] = "-" THEN 0 - DigitsVal(Unsigned(s)) ELSE DigitsVal(Unsigned(s))

RECURSIVE NatString(_)
NatString(n) ==
  IF n < 10 THEN <<DigitChar(n)>>
  ELSE NatString(n \div 10) \o <<DigitChar(n % 10)>>

\* big.Int.String(): decimal, a minus sign for negative values.
BigIntString(v) == IF v < 0 THEN <<"-">> \o NatString(0 - v) ELSE NatString(v)

\* ------------------------------------------------------------- Aggregate

Min(a, b) == IF a < b THEN a ELSE b

\* models.Aggregates{}
ZeroAggregates ==
  [Idx |-> 0, StartTime |-> ZeroTime, EndTime |-> ZeroTime,
   TransactionVolume |-> <<>>, TransactionCount |-> 0, OutputCount |-> 0,
   AddressCount |-> 0, AssetCount |-> 0]

\* models.AggregatesHistogram{}
ZeroHistogram ==
  [Aggregates |-> ZeroAggregates, IntervalSize |-> 0, Intervals |-> <<>>]

\* getFirstTransactionTime: one query for the earliest creation time (0 when
\* there is no transaction), which either fails or yields whole seconds.
getFirstTransactionTime(db) ==
  IF db.firstTxErr THEN [t |-> ZeroTime, err |-> ErrStorage]
  ELSE [t |-> TimeUnix(db.firstTx), err |-> NoErr]

\* params.StartTime after the defaulting of an unset start time.
DefaultedStartTime(p, db) ==
  IF IsZero(p.StartTime) THEN getFirstTransactionTime(db).t ELSE p.StartTime

\* intervalSeconds := int64(params.IntervalSize.Seconds())
IntervalSeconds(p) == DurationSeconds(p.IntervalSize)

\* int(math.Ceil(EndTime.Sub(StartTime).Seconds() / IntervalSize.Seconds())),
\* computed only when intervalSeconds # 0.
CeilIntervalCount(p) == CeilDiv(p.EndTime - p.StartTime, p.IntervalSize)

\* The guard of the ErrAggregateIntervalCountTooLarge return.
IntervalCountTooLarge(p) ==
  /\ IntervalSeconds(p) # 0
  /\ CeilIntervalCount(p) > MaxAggregateIntervalCount

\* requestedIntervalCount as it stands after validation.
RequestedIntervalCount(p) ==
  IF IntervalSeconds(p) = 0 THEN 0
  ELSE IF CeilIntervalCount(p) < 1 THEN 1 ELSE CeilIntervalCount(p)

\* What the aggregate query loads.  Grouped (n > 0): idx is selected, the
\* rows are grouped and ordered by idx and at most n are returned.  Ungrouped
\* (n = 0): no idx column is selected, so Idx keeps its zero value.
LoadAggregates(db, n) ==
  IF n > 0 THEN SubSeq(db.rows, 1, Min(n, Len(db.rows)))
  ELSE [i \in 1..Len(db.rows) |-> [db.rows[i] EXCEPT !.Idx = 0]]

\* timesForInterval with the end of the interval one second late.
timesForIntervalLate(p, intervalIdx) ==
  LET startTS == Unix(p.StartTime) + intervalIdx * IntervalSeconds(p)
  IN  <<TimeUnix(startTS), TimeUnix(startTS + IntervalSeconds(p))>>

\* timesForInterval
timesForInterval(p, intervalIdx) ==
  LET startTS == Unix(p.StartTime) + intervalIdx * IntervalSeconds(p)
  IN  <<TimeUnix(startTS), TimeUnix(startTS + IntervalSeconds(p) - 1)>>

\* models.Aggregates{Idx: i} with the times of interval i
PadAggregates(p, i) ==
  [ZeroAggregates EXCEPT !.Idx = i,
                         !.StartTime = timesForInterval(p, i)[1],
                         !.EndTime = timesForInterval(p, i)[2]]

\* padTo: append empty aggregates for the indices len(slice) .. to-1.
padTo(p, slice, to) ==
  IF Len(slice) >= to THEN slice
  ELSE slice \o [k \in 1..(to - Len(slice)) |-> PadAggregates(p, Len(slice) + k - 1)]

\* One turn of the loop over the loaded intervals, up to the parse of the
\* volume: pad up to the interval's index and set its times.
FormatInterval(p, interval) ==
  [interval EXCEPT !.StartTime = timesForInterval(p, interval.Idx)[1],
                   !.EndTime = timesForInterval(p, interval.Idx)[2]]

\* The running total overwritten by the interval's volume instead of added to.
AddVolumeOverwrite(totalVolume, intervalVolume) == intervalVolume

\* totalVolume.Add(totalVolume, intervalVolume)
AddVolume(totalVolume, intervalVolume) == totalVolume + intervalVolume

\* The loop over the loaded intervals.  acc holds aggs.Intervals, the
\* running totals, the number of padTo calls made and the error, if any.
RECURSIVE AggregateLoop(_, _, _)
AggregateLoop(p, intervals, acc) ==
  IF intervals = <<>> THEN acc
  ELSE
    LET interval == Head(intervals)
        padded   == padTo(p, acc.Intervals, interval.Idx)
    IN  IF ~BigIntOK(interval.TransactionVolume)
        THEN [acc EXCEPT !.Intervals = padded, !.pads = @ + 1,
                         !.err = ErrFailedToParseStringAsBigInt]
        ELSE AggregateLoop(p, Tail(intervals),
               [Intervals        |-> Append(padded, FormatInterval(p, interval)),
                totalVolume      |-> AddVolume(acc.totalVolume,
                                               BigIntVal(interval.TransactionVolume)),
                TransactionCount |-> acc.TransactionCount + interval.TransactionCount,
                OutputCount      |-> acc.OutputCount + interval.OutputCount,
                AddressCount     |-> acc.AddressCount + interval.AddressCount,
                AssetCount       |-> acc.AssetCount + interval.AssetCount,
                pads             |-> acc.pads + 1,
                err              |-> NoErr])

\* The state of the loop before its first turn.
LoopStart ==
  [Intervals |-> <<>>, totalVolume |-> 0, TransactionCount |-> 0,
   OutputCount |-> 0, AddressCount |-> 0, AssetCount |-> 0, pads |-> 0,
   err |-> NoErr]

\* The histogram built from the loaded intervals when requestedIntervalCount
\* is positive (p is the parameter object after defaulting).
BuildHistogram(p, intervals) ==
  LET n    == RequestedIntervalCount(p)
      done == AggregateLoop(p, intervals, LoopStart)
  IN  IF done.err # NoErr
      THEN [hist |-> Nil, err |-> done.err, pads |-> done.pads]
      ELSE [hist |->
              [IntervalSize |-> p.IntervalSize,
               Aggregates |->
                 [Idx |-> 0, StartTime |-> p.StartTime, EndTime |-> p.EndTime,
                  TransactionVolume |-> BigIntString(done.totalVolume),
                  TransactionCount |-> done.TransactionCount,
                  OutputCount |-> done.OutputCount,
                  AddressCount |-> done.AddressCount,
                  AssetCount |-> done.AssetCount],
               Intervals |-> padTo(p, done.Intervals, n)],
            err |-> NoErr, pads |-> done.pads + 1]

\* The single-interval return without the times of the request.
SingleIntervalNoTimes(p, intervals) ==
  IF Len(intervals) > 0
  THEN [ZeroHistogram EXCEPT !.Aggregates = intervals[1]]
  ELSE ZeroHistogram

\* The return taken when requestedIntervalCount is 0.
SingleInterval(p, intervals) ==
  IF Len(intervals) > 0
  THEN [ZeroHistogram EXCEPT
          !.Aggregates = [intervals[1] EXCEPT !.StartTime = p.StartTime,
                                              !.EndTime = p.EndTime]]
  ELSE ZeroHistogram

\* Aggregate with the interval count checked after the aggregate query has
\* been loaded instead of before.
AggregateCheckAfterLoad(p0, db) ==
  LET first == getFirstTransactionTime(db)
      q1    == IF IsZero(p0.StartTime) THEN <<"get_first_transaction_time">> ELSE <<>>
      p     == [p0 EXCEPT !.StartTime = DefaultedStartTime(p0, db)]
      n     == RequestedIntervalCount(p)
      q2    == q1 \o <<"get_transaction_aggregates_histogram">>
      built == BuildHistogram(p, LoadAggregates(db, n))
  IN  IF IsZero(p0.StartTime) /\ first.err # NoErr
      THEN [hist |-> Nil, err |-> first.err, queries |-> q1, pads |-> 0, params |-> p]
      ELSE IF db.aggErr
      THEN [hist |-> Nil, err |-> ErrStorage, queries |-> q2, pads |-> 0, params |-> p]
      ELSE IF IntervalCountTooLarge(p)
      THEN [hist |-> Nil, err |-> ErrAggregateIntervalCountTooLarge,
            queries |-> q2, pads |-> 0, params |-> p]
      ELSE IF n = 0
      THEN [hist |-> SingleInterval(p, LoadAggregates(db, n)), err |-> NoErr,
            queries |-> q2, pads |-> 0, params |-> p]
      ELSE [hist |-> built.hist, err |-> built.err, queries |-> q2,
            pads |-> built.pads, params |-> p]

\* Reader.Aggregate.  The result, the error, the storage queries issued in
\* order (by session name), the number of padTo calls and the parameter
\* object as the call leaves it.
Aggregate(p0, db) ==
  LET first == getFirstTransactionTime(db)
      q1    == IF IsZero(p0.StartTime) THEN <<"get_first_transaction_time">> ELSE <<>>
      p     == [p0 EXCEPT !.StartTime = DefaultedStartTime(p0, db)]
      n     == RequestedIntervalCount(p)
      q2    == q1 \o <<"get_transaction_aggregates_histogram">>
      built == BuildHistogram(p, LoadAggregates(db, n))
  IN  IF IsZero(p0.StartTime) /\ first.err # NoErr
      THEN [hist |-> Nil, err |-> first.err, queries |-> q1, pads |-> 0, params |-> p]
      ELSE IF IntervalCountTooLarge(p)
      THEN [hist |-> Nil, err |-> ErrAggregateIntervalCountTooLarge,
            queries |-> q1, pads |-> 0, params |-> p]
      ELSE IF db.aggErr
      THEN [hist |-> Nil, err |-> ErrStorage, queries |-> q2, pads |-> 0, params |-> p]
      ELSE IF n = 0
      THEN [hist |-> SingleInterval(p, LoadAggregates(db, n)), err |-> NoErr,
            queries |-> q2, pads |-> 0, params |-> p]
      ELSE [hist |-> built.hist, err |-> built.err, queries |-> q2,
            pads |-> built.pads, params |-> p]

\* ----------------------------------------------------------- Go maps

\* A Go map is a function; a missing key reads as the zero value given.
MapGet(m, k, zero) == IF k \in DOMAIN m THEN m[k] ELSE zero

MapPut(m, k, v) == [x \in DOMAIN m \cup {k} |-> IF x = k THEN v ELSE m[x]]

EmptyMap == <<>>

\* The elements of a set in some fixed order (a query without ORDER BY and
\* the iteration of a Go map promise no order; the claims read these lists
\* as collections).
RECURSIVE SetToSeq(_)
SetToSeq(S) ==
  IF S = {} THEN <<>>
  ELSE LET x == CHOOSE y \in S : TRUE IN <<x>> \o SetToSeq(S \ {x})

\* ------------------------------------------------------ dressTransactions

\* selectOutputs: avm_outputs joined to avm_output_addresses (and to
\* addresses for the public key), one row for each (output, address) pair.
\* Output.Addresses is no column of the query and loads empty.
selectOutputs(ledger) ==
  UNION {{[ID |-> o.ID, TransactionID |-> o.TransactionID, AssetID |-> o.AssetID,
           Amount |-> o.Amount,
           RedeemingTransactionID |-> o.RedeemingTransactionID,
           Addresses |-> <<>>,
           OutputID |-> a.OutputID, Address |-> a.Address,
           Signature |-> a.Signature, PublicKey |-> a.PublicKey] :
            a \in {x \in ledger.addresses : x.OutputID = o.ID}} :
         o \in ledger.outputs}

\* The rows of the first load: outputs owned by a transaction of the batch.
LoadOutputs(ledger, txIDs) ==
  SetToSeq({r \in selectOutputs(ledger) : r.TransactionID \in txIDs})

\* The rows of the second load: outputs redeemed by a transaction of the batch.
LoadInputs(ledger, txIDs) ==
  SetToSeq({r \in selectOutputs(ledger) : r.RedeemingTransactionID \in txIDs})

\* The models.Output embedded in a row.
OutputOf(row) ==
  [ID |-> row.ID, TransactionID |-> row.TransactionID, AssetID |-> row.AssetID,
   Amount |-> row.Amount, RedeemingTransactionID |-> row.RedeemingTransactionID,
   Addresses |-> row.Addresses]

\* addToBigIntMap
addToBigIntMap(m, assetID, amt) == MapPut(m, assetID, amt + MapGet(m, assetID, 0))

\* The five maps before the first pass.
EmptyMaps ==
  [outputAddrs |-> EmptyMap, inputsMap |-> EmptyMap, outputsMap |-> EmptyMap,
   inputTotalsMap |-> EmptyMap, outputTotalsMap |-> EmptyMap, err |-> NoErr]

\* One turn of the first pass, for row i (a pointer to a row's Output is the
\* row's position in the merged list).
CollectOutpoint(st, rows, i) ==
  LET out    == rows[i]
      bigAmt == BigIntVal(out.Amount)
  IN  [outputAddrs |->
         MapPut(st.outputAddrs, out.ID,
                MapGet(st.outputAddrs, out.ID, {}) \cup {out.Address}),
       outputsMap |->
         MapPut(st.outputsMap, out.TransactionID,
                MapPut(MapGet(st.outputsMap, out.TransactionID, EmptyMap), out.ID, i)),
       inputsMap |->
         MapPut(st.inputsMap, out.RedeemingTransactionID,
                MapPut(MapGet(st.inputsMap, out.RedeemingTransactionID, EmptyMap),
                       out.ID, [Output |-> i, Creds |-> <<>>])),
       outputTotalsMap |->
         MapPut(st.outputTotalsMap, out.TransactionID,
                addToBigIntMap(MapGet(st.outputTotalsMap, out.TransactionID, EmptyMap),
                               out.AssetID, bigAmt)),
       inputTotalsMap |->
         MapPut(st.inputTotalsMap, out.RedeemingTransactionID,
                addToBigIntMap(MapGet(st.inputTotalsMap, out.RedeemingTransactionID,
                                      EmptyMap),
                               out.AssetID, bigAmt)),
       err |-> NoErr]

\* The first pass over the merged rows, from row i on: stops with an error
\* at the first amount that does not parse.
RECURSIVE CollectOutpoints(_, _, _)
CollectOutpoints(st, rows, i) ==
  IF i > Len(rows) THEN st
  ELSE IF ~BigIntOK(rows[i].Amount) THEN [st EXCEPT !.err = "invalid amount"]
  ELSE CollectOutpoints(CollectOutpoint(st, rows, i), rows, i + 1)

\* The credential a row contributes.
Credential(row) ==
  [Address |-> row.Address, PublicKey |-> row.PublicKey, Signature |-> row.Signature]

\* The second pass, for row i: when the row carries a signature, the Input
\* of the redeeming transaction whose output has the row's output id gets the
\* row's credential appended.
AddCredential(inputsMap, rows, i) ==
  LET out    == rows[i]
      inputs == MapGet(inputsMap, out.RedeemingTransactionID, EmptyMap)
      hits   == {k \in DOMAIN inputs : rows[inputs[k].Output].ID = out.OutputID}
  IN  IF out.Signature = "" \/ hits = {} THEN inputsMap
      ELSE LET k == CHOOSE x \in hits : TRUE
           IN  MapPut(inputsMap, out.RedeemingTransactionID,
                      MapPut(inputs, k,
                             [inputs[k] EXCEPT !.Creds = Append(@, Credential(out))]))

RECURSIVE AddCredentials(_, _, _)
AddCredentials(inputsMap, rows, i) ==
  IF i > Len(rows) THEN inputsMap
  ELSE AddCredentials(AddCredential(inputsMap, rows, i), rows, i + 1)

\* The second pass sets the Addresses of every row to the addresses
\* collected for the row's output id.
WithAddresses(rows, outputAddrs) ==
  [i \in 1..Len(rows) |->
     [rows[i] EXCEPT !.Addresses = SetToSeq(outputAddrs[rows[i].ID])]]

\* The third pass, for one transaction.
DressOne(tx, rows, st) ==
  LET inputs  == MapGet(st.inputsMap, tx.ID, EmptyMap)
      outputs == MapGet(st.outputsMap, tx.ID, EmptyMap)
      inTot   == MapGet(st.inputTotalsMap, tx.ID, EmptyMap)
      outTot  == MapGet(st.outputTotalsMap, tx.ID, EmptyMap)
      inKeys  == SetToSeq(DOMAIN inputs)
      outKeys == SetToSeq(DOMAIN outputs)
  IN  [tx EXCEPT
         !.Inputs = @ \o [j \in 1..Len(inKeys) |->
                            [Output |-> OutputOf(rows[inputs[inKeys[j]].Output]),
                             Creds  |-> inputs[inKeys[j]].Creds]],
         !.Outputs = @ \o [j \in 1..Len(outKeys) |->
                             OutputOf(rows[outputs[outKeys[j]]])],
         !.InputTotals = [a \in DOMAIN inTot |-> BigIntString(inTot[a])],
         !.OutputTotals = [a \in DOMAIN outTot |-> BigIntString(outTot[a])]]

\* The transaction ids of a batch.
TxIDsOf(txs) == {txs[i].ID : i \in 1..Len(txs)}

\* dressTransactions attaching what the rows that parse give before it
\* reports the row that does not.
DressRowsKeepParsed(txs, merged) ==
  LET parsed == SelectSeq(merged, LAMBDA row : BigIntOK(row.Amount))
      st1  == CollectOutpoints(EmptyMaps, parsed, 1)
      rows == WithAddresses(parsed, st1.outputAddrs)
      st2  == [st1 EXCEPT !.inputsMap = AddCredentials(st1.inputsMap, rows, 1)]
  IN  [txs |-> [i \in 1..Len(txs) |-> DressOne(txs[i], rows, st2)],
       err |-> IF Len(parsed) = Len(merged) THEN NoErr ELSE "invalid amount"]

\* The passes of dressTransactions over the merged rows.
DressRows(txs, merged) ==
  LET st1  == CollectOutpoints(EmptyMaps, merged, 1)
      rows == WithAddresses(merged, st1.outputAddrs)
      st2  == [st1 EXCEPT !.inputsMap = AddCredentials(st1.inputsMap, rows, 1)]
  IN  IF st1.err # NoErr THEN [txs |-> txs, err |-> st1.err]
      ELSE [txs |-> [i \in 1..Len(txs) |-> DressOne(txs[i], rows, st2)],
            err |-> NoErr]

\* Reader.dressTransactions: the batch as the call leaves it, the error and
\* the loads issued.  db.ledger holds the two tables; db.dressFault names the
\* load that fails, if one does.
dressTransactions(txs, db) ==
  LET txIDs == TxIDsOf(txs)
      q1 == <<[stmt |-> "select_outputs", where |-> "transaction_id"]>>
      q2 == q1 \o <<[stmt |-> "select_outputs", where |-> "redeeming_transaction_id"]>>
      dressed == DressRows(txs, LoadOutputs(db.ledger, txIDs)
                                  \o LoadInputs(db.ledger, txIDs))
  IN  IF Len(txs) = 0 THEN [txs |-> txs, err |-> NoErr, queries |-> <<>>]
      ELSE IF db.dressFault = "outputs"
      THEN [txs |-> txs, err |-> ErrStorage, queries |-> q1]
      ELSE IF db.dressFault = "inputs"
      THEN [txs |-> txs, err |-> ErrStorage, queries |-> q2]
      ELSE [txs |-> dressed.txs, err |-> dressed.err, queries |-> q2]

\* A transaction as the page query loads it.
LoadedTx(id) ==
  [ID |-> id, Inputs |-> <<>>, Outputs |-> <<>>,
   InputTotals |-> EmptyMap, OutputTotals |-> EmptyMap]

\* --------------------------------------------------------- dressAddresses

\* An address as the page query loads it.
LoadedAddress(a) == [Address |-> a, PublicKey |-> "pk", Assets |-> EmptyMap]

\* The accumulation of the grouped rows into the addresses of the batch; a
\* row of an address that is not in the batch is skipped.
RECURSIVE AccumulateAssets(_, _)
AccumulateAssets(addrs, rows) ==
  IF rows = <<>> THEN addrs
  ELSE AccumulateAssets(
         [i \in 1..Len(addrs) |->
            IF addrs[i].Address = Head(rows).Address
            THEN [addrs[i] EXCEPT !.Assets = MapPut(@, Head(rows).AssetID,
                                                    Head(rows).AssetInfo)]
            ELSE addrs[i]],
         Tail(rows))

\* Reader.dressAddresses: one grouped query over the outputs of the batch's
\* addresses, accumulated into each address's Assets.
dressAddresses(addrs, db) ==
  LET q == <<[stmt |-> "dress_addresses", where |-> "address"]>>
  IN  IF Len(addrs) = 0 THEN [addrs |-> addrs, err |-> NoErr, queries |-> <<>>]
      ELSE IF db.dressFault = "addresses"
      THEN [addrs |-> addrs, err |-> ErrStorage, queries |-> q]
      ELSE [addrs |-> AccumulateAssets(addrs, db.assetRows), err |-> NoErr,
            queries |-> q]

\* ------------------------------------------------------------ List readers

\* params.ListParams{}
ZeroListParams == [Offset |-> 0, Limit |-> 0, DisableCounting |-> FALSE]

\* A query handed to storage: the session, the statement (the page SELECT or
\* the COUNT) and the parameter object that p.Apply built it from.
StorageQuery(session, stmt, p) == [session |-> session, stmt |-> stmt, p |-> p]

\* The page is saturated: len(rows) >= p.Limit.
Saturated(p, n) == n >= p.ListParams.Limit

\* The counting block without the clearing of the pagination: the count
\* query is built from the parameter object as the caller gave it.
CountRowsKeepPagination(p, n, db, session) ==
  IF p.ListParams.DisableCounting
  THEN [count |-> 0, err |-> NoErr, queries |-> <<>>, p |-> p]
  ELSE IF ~Saturated(p, n)
  THEN [count |-> p.ListParams.Offset + n, err |-> NoErr, queries |-> <<>>, p |-> p]
  ELSE IF db.fault = "count"
  THEN [count |-> 0, err |-> ErrStorage,
        queries |-> <<StorageQuery(session, "count", p)>>, p |-> p]
  ELSE [count |-> db.count, err |-> NoErr,
        queries |-> <<StorageQuery(session, "count", p)>>, p |-> p]

\* The counting block that each List* reader repeats after its page query
\* (ListTransactions, ListAssets, ListAddresses, ListOutputs): with counting
\* not disabled count is offset + len(rows), and when the page is saturated
\* the parameter object's ListParams are cleared and a COUNT query built
\* from it overrides count, or fails.
CountRows(p, n, db, session) ==
  LET cleared == [p EXCEPT !.ListParams = ZeroListParams]
  IN  IF p.ListParams.DisableCounting
      THEN [count |-> 0, err |-> NoErr, queries |-> <<>>, p |-> p]
      ELSE IF ~Saturated(p, n)
      THEN [count |-> p.ListParams.Offset + n, err |-> NoErr, queries |-> <<>>,
            p |-> p]
      ELSE IF db.fault = "count"
      THEN [count |-> 0, err |-> ErrStorage,
            queries |-> <<StorageQuery(session, "count", cleared)>>, p |-> cleared]
      ELSE [count |-> db.count, err |-> NoErr,
            queries |-> <<StorageQuery(session, "count", cleared)>>, p |-> cleared]

\* Reader.ListAssets
ListAssets(p, db) ==
  LET q1 == <<StorageQuery("list_assets", "page", p)>>
      c  == CountRows(p, Len(db.page), db, "list_assets")
  IN  IF db.fault = "page"
      THEN [list |-> Nil, err |-> ErrStorage, queries |-> q1, p |-> p]
      ELSE IF c.err # NoErr
      THEN [list |-> Nil, err |-> c.err, queries |-> q1 \o c.queries, p |-> c.p]
      ELSE [list |-> [Count |-> c.count, Assets |-> db.page], err |-> NoErr,
            queries |-> q1 \o c.queries, p |-> c.p]

\* Reader.ListTransactions (the ORDER BY the sort adds to the page query does
\* not decide what the reader does with the rows and is left to storage).
ListTransactions(p, db) ==
  LET q1 == <<StorageQuery("get_transactions", "page", p)>>
      c  == CountRows(p, Len(db.page), db, "get_transactions")
      d  == dressTransactions(db.page, db)
  IN  IF db.fault = "page"
      THEN [list |-> Nil, err |-> ErrStorage, queries |-> q1, p |-> p]
      ELSE IF c.err # NoErr
      THEN [list |-> Nil, err |-> c.err, queries |-> q1 \o c.queries, p |-> c.p]
      ELSE IF d.err # NoErr
      THEN [list |-> Nil, err |-> d.err, queries |-> q1 \o c.queries \o d.queries,
            p |-> c.p]
      ELSE [list |-> [Count |-> c.count, Transactions |-> d.txs], err |-> NoErr,
            queries |-> q1 \o c.queries \o d.queries, p |-> c.p]

\* Reader.ListAddresses
ListAddresses(p, db) ==
  LET q1 == <<StorageQuery("list_addresses", "page", p)>>
      c  == CountRows(p, Len(db.page), db, "list_addresses")
      d  == dressAddresses(db.page, db)
  IN  IF db.fault = "page"
      THEN [list |-> Nil, err |-> ErrStorage, queries |-> q1, p |-> p]
      ELSE IF c.err # NoErr
      THEN [list |-> Nil, err |-> c.err, queries |-> q1 \o c.queries, p |-> c.p]
      ELSE IF d.err # NoErr
      THEN [list |-> Nil, err |-> d.err, queries |-> q1 \o c.queries \o d.queries,
            p |-> c.p]
      ELSE [list |-> [Count |-> c.count, Addresses |-> d.addrs], err |-> NoErr,
            queries |-> q1 \o c.queries \o d.queries, p |-> c.p]

\* An output as the page query of ListOutputs loads it.
LoadedOutput(id) == [ID |-> id, Addresses |-> <<>>]

\* The loop of ListOutputs over the address rows: each row's address is
\* appended to the output of the page it belongs to; rows of other outputs
\* are skipped.
RECURSIVE AttachAddresses(_, _)
AttachAddresses(outputs, addresses) ==
  IF addresses = <<>> THEN outputs
  ELSE AttachAddresses(
         [i \in 1..Len(outputs) |->
            IF outputs[i].ID = Head(addresses).OutputID
            THEN [outputs[i] EXCEPT !.Addresses = Append(@, Head(addresses).Address)]
            ELSE outputs[i]],
         Tail(addresses))

\* Reader.ListOutputs
ListOutputs(p, db) ==
  LET q1 == <<StorageQuery("list_transaction_outputs", "page", p)>>
      q2 == q1 \o <<[session |-> "list_transaction_outputs",
                     stmt |-> "addresses", p |-> p]>>
      c  == CountRows(p, Len(db.page), db, "list_transaction_outputs")
  IN  IF db.fault = "page"
      THEN [list |-> Nil, err |-> ErrStorage, queries |-> q1, p |-> p]
      ELSE IF Len(db.page) < 1
      THEN [list |-> [Count |-> 0, Outputs |-> db.page], err |-> NoErr,
            queries |-> q1, p |-> p]
      ELSE IF db.fault = "addresses"
      THEN [list |-> Nil, err |-> ErrStorage, queries |-> q2, p |-> p]
      ELSE IF c.err # NoErr
      THEN [list |-> Nil, err |-> c.err, queries |-> q2 \o c.queries, p |-> c.p]
      ELSE [list |-> [Count |-> c.count,
                      Outputs |-> AttachAddresses(db.page, db.addressRows)],
            err |-> NoErr, queries |-> q2 \o c.queries, p |-> c.p]

\* ------------------------------------------------------------------ Search

\* params.PaginationMaxLimit, the largest page the parameter builder allows.
PaginationMaxLimit == 500

\* The tagged entries of one entity kind.
Tagged(kind, items) ==
  [i \in 1..Len(items) |-> [SearchResultType |-> kind, Data |-> items[i]]]

\* collateSearchResults; a nil list argument is passed as the empty sequence.
collateSearchResults(assetResults, addressResults, transactionResults) ==
  LET returnedResultCount ==
        Len(assetResults) + Len(addressResults) + Len(transactionResults)
  IN  [Count |-> Min(returnedResultCount, PaginationMaxLimit),
       Results |-> Tagged("asset", assetResults)
                     \o Tagged("address", addressResults)
                     \o Tagged("transaction", transactionResults)]

\* models.SearchResults{}
ZeroSearchResults == [Count |-> 0, Results |-> <<>>]

\* The length guard off by one.
QueryTooShortOffByOne(p) == Len(p.Query) <= MinSearchQueryLength

\* The guard of the ErrSearchQueryTooShort return.
QueryTooShort(p) == Len(p.Query) < MinSearchQueryLength

\* A List* call made by Search: the reader and the parameter object given.
SubCall(reader, p) == [reader |-> reader, p |-> p]

\* params.ListParams{DisableCounting: true}
CountingDisabled == [ZeroListParams EXCEPT !.DisableCounting = TRUE]

\* The element of a one-element set; The({F(x) : x \in {e}}) is F(e) with e
\* evaluated once.
The(S) == CHOOSE x \in S : TRUE

\* params.ListParams{DisableCounting: true} with the identifier to look up.
ByIdentifier(id) == [ListParams |-> CountingDisabled, Query |-> <<>>, ID |-> id]

\* What searchByShortID returns, given what its ListAddresses call returned.
ShortIDResult(listParams, addrs) ==
  LET calls == <<SubCall("ListAddresses", listParams)>>
  IN  IF addrs.err # NoErr
      THEN [res |-> Nil, err |-> addrs.err, calls |-> calls, queries |-> addrs.queries]
      ELSE IF Len(addrs.list.Addresses) > 0
      THEN [res |-> collateSearchResults(<<>>, addrs.list.Addresses, <<>>),
            err |-> NoErr, calls |-> calls, queries |-> addrs.queries]
      ELSE [res |-> ZeroSearchResults, err |-> NoErr, calls |-> calls,
            queries |-> addrs.queries]

\* Reader.searchByShortID
searchByShortID(id, sdb) ==
  The({ShortIDResult(ByIdentifier(id), addrs) :
         addrs \in {ListAddresses(ByIdentifier(id), sdb.addresses)}})

\* searchByID with the transactions looked up before the asset result is
\* examined.
IDResultBothQueried(listParams, assets, txs) ==
  LET c1 == <<SubCall("ListAssets", listParams)>>
      c2 == c1 \o <<SubCall("ListTransactions", listParams)>>
      q2 == assets.queries \o txs.queries
  IN  IF assets.err # NoErr
      THEN [res |-> Nil, err |-> assets.err, calls |-> c1, queries |-> assets.queries]
      ELSE IF txs.err # NoErr
      THEN [res |-> Nil, err |-> txs.err, calls |-> c2, queries |-> q2]
      ELSE IF Len(assets.list.Assets) > 0
      THEN [res |-> collateSearchResults(assets.list.Assets, <<>>, <<>>),
            err |-> NoErr, calls |-> c2, queries |-> q2]
      ELSE IF Len(txs.list.Transactions) > 0
      THEN [res |-> collateSearchResults(<<>>, <<>>, txs.list.Transactions),
            err |-> NoErr, calls |-> c2, queries |-> q2]
      ELSE [res |-> ZeroSearchResults, err |-> NoErr, calls |-> c2, queries |-> q2]

\* What searchByID returns, given what ListAssets returned and what
\* ListTransactions returns if it is called.
IDResult(listParams, assets, txs) ==
  LET c1 == <<SubCall("ListAssets", listParams)>>
      c2 == c1 \o <<SubCall("ListTransactions", listParams)>>
  IN  IF assets.err # NoErr
      THEN [res |-> Nil, err |-> assets.err, calls |-> c1, queries |-> assets.queries]
      ELSE IF Len(assets.list.Assets) > 0
      THEN [res |-> collateSearchResults(assets.list.Assets, <<>>, <<>>),
            err |-> NoErr, calls |-> c1, queries |-> assets.queries]
      ELSE IF txs.err # NoErr
      THEN [res |-> Nil, err |-> txs.err, calls |-> c2,
            queries |-> assets.queries \o txs.queries]
      ELSE IF Len(txs.list.Transactions) > 0
      THEN [res |-> collateSearchResults(<<>>, <<>>, txs.list.Transactions),
            err |-> NoErr, calls |-> c2, queries |-> assets.queries \o txs.queries]
      ELSE [res |-> ZeroSearchResults, err |-> NoErr, calls |-> c2,
            queries |-> assets.queries \o txs.queries]

\* Reader.searchByID
searchByID(id, sdb) ==
  The({IDResult(ByIdentifier(id), assets, txs) :
         assets \in {ListAssets(ByIdentifier(id), sdb.assets)},
         txs \in {ListTransactions(ByIdentifier(id), sdb.transactions)}})

\* The parameter object of the List* calls of the regular search: a copy of
\* the list params with DisableCounting injected, and the query text.
ByQuery(sp) ==
  [ListParams |-> [sp.ListParams EXCEPT !.DisableCounting = TRUE],
   Query |-> sp.Query, ID |-> ""]

\* What the regular search returns, given what ListAssets returned and what
\* ListTransactions and ListAddresses return if they are called: each list
\* is compared with the limit on its own.
QueryResult(limit, listParams, assets, transactions, addresses) ==
  LET c1 == <<SubCall("ListAssets", listParams)>>
      c2 == c1 \o <<SubCall("ListTransactions", listParams)>>
      c3 == c2 \o <<SubCall("ListAddresses", listParams)>>
      q2 == assets.queries \o transactions.queries
      q3 == q2 \o addresses.queries
  IN  IF assets.err # NoErr
      THEN [res |-> Nil, err |-> assets.err, calls |-> c1, queries |-> assets.queries]
      ELSE IF Len(assets.list.Assets) >= limit
      THEN [res |-> collateSearchResults(assets.list.Assets, <<>>, <<>>),
            err |-> NoErr, calls |-> c1, queries |-> assets.queries]
      ELSE IF transactions.err # NoErr
      THEN [res |-> Nil, err |-> transactions.err, calls |-> c2, queries |-> q2]
      ELSE IF Len(transactions.list.Transactions) >= limit
      THEN [res |-> collateSearchResults(assets.list.Assets, <<>>,
                                         transactions.list.Transactions),
            err |-> NoErr, calls |-> c2, queries |-> q2]
      ELSE IF addresses.err # NoErr
      THEN [res |-> Nil, err |-> addresses.err, calls |-> c3, queries |-> q3]
      ELSE [res |-> collateSearchResults(assets.list.Assets,
                                         addresses.list.Addresses,
                                         transactions.list.Transactions),
            err |-> NoErr, calls |-> c3, queries |-> q3]

\* The regular search of Reader.Search against all models.
searchByQuery(sp, sdb) ==
  The({QueryResult(sp.ListParams.Limit, ByQuery(sp), assets, transactions, addresses) :
         assets \in {ListAssets(ByQuery(sp), sdb.assets)},
         transactions \in {ListTransactions(ByQuery(sp), sdb.transactions)},
         addresses \in {ListAddresses(ByQuery(sp), sdb.addresses)}})

\* Search with the full-identifier parse tried before the short one.
SearchFullIDFirst(sp, parse, sdb) ==
  IF QueryTooShort(sp)
  THEN [res |-> Nil, err |-> ErrSearchQueryTooShort, calls |-> <<>>, queries |-> <<>>]
  ELSE IF parse.id THEN searchByID(parse.fullID, sdb)
  ELSE IF parse.short THEN searchByShortID(parse.shortID, sdb)
  ELSE searchByQuery(sp, sdb)

\* Reader.Search.  parse holds what the two identifier parsers answer for
\* the query: params.AddressFromString succeeded (short) and ids.FromString
\* succeeded (id), and the identifiers they yield.
Search(sp, parse, sdb) ==
  IF QueryTooShort(sp)
  THEN [res |-> Nil, err |-> ErrSearchQueryTooShort, calls |-> <<>>, queries |-> <<>>]
  ELSE IF parse.short THEN searchByShortID(parse.shortID, sdb)
  ELSE IF parse.id THEN searchByID(parse.fullID, sdb)
  ELSE searchByQuery(sp, sdb)
\* ---------------------------------------------------- inputs of Aggregate

BaseTime == TimeUnix(BaseSeconds)

StartTimes == {ZeroTime, BaseTime, BaseTime + 1}

\* zero, below one second, one second, between one and two seconds, two seconds
IntervalSizes == {0, 1, TicksPerSecond, TicksPerSecond + 1, 2 * TicksPerSecond}

EndTimes == {BaseTime + d : d \in (0 - TicksPerSecond)..(MaxSpanSeconds * TicksPerSecond)}

\* Requests at the largest interval count allowed and just past it: one-second
\* intervals over MaxAggregateIntervalCount seconds, and over one tick more.
LargeParams ==
  {[StartTime |-> s, IntervalSize |-> TicksPerSecond, EndTime |-> e] :
     s \in {ZeroTime, BaseTime},
     e \in {BaseTime + MaxAggregateIntervalCount * TicksPerSecond,
            BaseTime + MaxAggregateIntervalCount * TicksPerSecond + 1}}

\* The requests of a few intervals.
SmallParams ==
  [StartTime : StartTimes, IntervalSize : IntervalSizes, EndTime : EndTimes]

AggregateParams == SmallParams \cup LargeParams

\* Volume strings a row may carry: "7", "12", and one that is no integer.
Volumes == {<<"7">>, <<"1", "2">>, <<"x">>}

AggregateRow(i, v) ==
  [Idx |-> i, StartTime |-> ZeroTime, EndTime |-> ZeroTime,
   TransactionVolume |-> v, TransactionCount |-> i + 1, OutputCount |-> i + 2,
   AddressCount |-> 1, AssetCount |-> 1]

\* The results a query grouped and ordered by idx can have: rows of distinct,
\* ascending bucket indices from..MaxIdx.
RECURSIVE RowSeqs(_)
RowSeqs(from) ==
  IF from > MaxIdx THEN {<<>>}
  ELSE RowSeqs(from + 1)
         \cup {<<AggregateRow(from, v)>> \o rest : v \in Volumes, rest \in RowSeqs(from + 1)}

\* What the earliest-transaction lookup answers; it is only made when the
\* start time is unset.
FirstTxOutcomes(p) ==
  IF IsZero(p.StartTime)
  THEN {[firstTxErr |-> TRUE, firstTx |-> 0],
        [firstTxErr |-> FALSE, firstTx |-> 0],
        [firstTxErr |-> FALSE, firstTx |-> BaseSeconds]}
  ELSE {[firstTxErr |-> FALSE, firstTx |-> 0]}

\* What the aggregate query of request p can load.  Without GROUP BY (the
\* interval is below one second) an aggregate SELECT yields exactly one row.
\* The requests of LargeParams are answered from a few results only.
AggregateRows(p) ==
  IF IntervalSeconds(p) = 0 THEN {<<AggregateRow(0, v)>> : v \in Volumes}
  ELSE IF p \in LargeParams
  THEN {<<>>, <<AggregateRow(1, <<"7">>)>>,
        <<AggregateRow(0, <<"1", "2">>), AggregateRow(MaxIdx, <<"7">>)>>}
  ELSE RowSeqs(0)

AggregateDBs(p) ==
  {[firstTxErr |-> f.firstTxErr, firstTx |-> f.firstTx, aggErr |-> FALSE, rows |-> r] :
     f \in FirstTxOutcomes(p), r \in AggregateRows(p)}
  \cup
  {[firstTxErr |-> f.firstTxErr, firstTx |-> f.firstTx, aggErr |-> TRUE, rows |-> <<>>] :
     f \in FirstTxOutcomes(p)}

\* ------------------------------------------------ inputs of dressTransactions

NoTx == ""

\* Output O1 is owned by T1; its asset, its amount, whether T2 redeemed it,
\* its addresses (one or two) and which of them signed the redemption vary.
O1Outputs ==
  {[ID |-> "O1", TransactionID |-> "T1", AssetID |-> a, Amount |-> amt,
    RedeemingTransactionID |-> r] :
     a \in {"A", "B"}, amt \in {<<"5">>, <<"x">>}, r \in {NoTx, "T2"}}

AddressRow(o, addr, sig) ==
  [OutputID |-> o, Address |-> addr, Signature |-> sig, PublicKey |-> "pk"]

\* The address rows an output can have: one or two addresses; a row carries
\* a redeeming signature only if the output was redeemed.
AddressRows(o) ==
  LET sigs == IF o.RedeemingTransactionID = NoTx THEN {""} ELSE {"", "sig"}
  IN  {{AddressRow(o.ID, "a1", s)} : s \in sigs}
        \cup {{AddressRow(o.ID, "a1", s1), AddressRow(o.ID, "a2", s2)} :
                s1 \in sigs, s2 \in sigs}

\* Output O2, when present, is owned by T1, of asset A and amount 7 (or an
\* amount that is no integer), held by a1, and either unspent or redeemed by
\* T2 with a1's signature.
O2Tables ==
  {[outputs |-> {}, addresses |-> {}]}
    \cup {[outputs |-> {[ID |-> "O2", TransactionID |-> "T1", AssetID |-> "A",
                        Amount |-> amt, RedeemingTransactionID |-> r]},
           addresses |-> {AddressRow("O2", "a1", IF r = NoTx THEN "" ELSE "sig")}] :
            r \in {NoTx, "T2"}, amt \in {<<"7">>, <<"x">>}}

\* The ledgers of the model: O1 with its address rows, with or without O2.
Ledgers ==
  UNION {{[outputs |-> {o} \cup t.outputs, addresses |-> as \cup t.addresses] :
            as \in AddressRows(o), t \in O2Tables} :
         o \in O1Outputs}

Batches ==
  {<<>>, <<LoadedTx("T1")>>, <<LoadedTx("T2")>>, <<LoadedTx("T3")>>,
   <<LoadedTx("T1"), LoadedTx("T2")>>}

DressFaults == {"none", "outputs", "inputs"}

\* ----------------------------------------------------- inputs of the readers

\* Names for the rows of a page.
TxNames == <<"T1", "T2", "T3", "T4", "T5", "T6">>

AssetNames == <<"A1", "A2", "A3", "A4", "A5", "A6">>

AddressNames == <<"a1", "a2", "a3", "a4", "a5", "a6">>

OutputNames == <<"O1", "O2", "O3", "O4", "O5", "O6">>

TxPage(r) == [i \in 1..r |-> LoadedTx(TxNames[i])]

AssetPage(r) == [i \in 1..r |-> [ID |-> AssetNames[i]]]

AddressPage(r) == [i \in 1..r |-> LoadedAddress(AddressNames[i])]

OutputPage(r) == [i \in 1..r |-> LoadedOutput(OutputNames[i])]

\* The filters of a parameter object: a query text or an identifier.
Filters ==
  {[Query |-> <<>>, ID |-> ""], [Query |-> <<"a", "v">>, ID |-> ""],
   [Query |-> <<>>, ID |-> "T1"]}

ListParamsSet ==
  [Offset : 0..MaxOffset, Limit : 0..MaxLimit, DisableCounting : BOOLEAN]

ListInputs ==
  {[ListParams |-> lp, Query |-> f.Query, ID |-> f.ID] :
     lp \in ListParamsSet, f \in Filters}

\* A ledger in which T1 owns one output of amount 5 held by a1, and the same
\* with an amount that is no integer.
ListLedger(amt) ==
  [outputs |-> {[ID |-> "O1", TransactionID |-> "T1", AssetID |-> "A",
                 Amount |-> amt, RedeemingTransactionID |-> NoTx]},
   addresses |-> {AddressRow("O1", "a1", "")}]

\* The grouped rows dressAddresses loads: a1 holds asset A.
AssetRows ==
  <<[Address |-> "a1", AssetID |-> "A",
     AssetInfo |-> [TransactionCount |-> 1, TotalReceived |-> <<"5">>,
                    TotalSent |-> <<"0">>, Balance |-> <<"5">>, UTXOCount |-> 1]]>>

\* The address rows ListOutputs loads: O1 is held by a1 and a2; the third
\* row belongs to no output of a page.
OutputAddressRows ==
  <<[OutputID |-> "O1", Address |-> "a1"], [OutputID |-> "O1", Address |-> "a2"],
    [OutputID |-> "O9", Address |-> "a3"]>>

\* What storage answers a reader: the page, the row count, and the query
\* that fails, if one does.
AssetDBs ==
  {[page |-> AssetPage(r), count |-> TotalRows, fault |-> f] :
     r \in 0..MaxRows, f \in {"none", "page", "count"}}

TransactionDBs ==
  {[page |-> TxPage(r), count |-> TotalRows, fault |-> f[1], dressFault |-> f[2],
    ledger |-> ListLedger(f[3])] :
     r \in 0..MaxRows,
     f \in {<<"none", "none", <<"5">>>>, <<"page", "none", <<"5">>>>,
            <<"count", "none", <<"5">>>>, <<"none", "outputs", <<"5">>>>,
            <<"none", "inputs", <<"5">>>>, <<"none", "none", <<"x">>>>}}

AddressDBs ==
  {[page |-> AddressPage(r), count |-> TotalRows, fault |-> f[1],
    dressFault |-> f[2], assetRows |-> AssetRows] :
     r \in 0..MaxRows,
     f \in {<<"none", "none">>, <<"page", "none">>, <<"count", "none">>,
            <<"none", "addresses">>}}

OutputDBs ==
  {[page |-> OutputPage(r), count |-> TotalRows, fault |-> f,
    addressRows |-> OutputAddressRows] :
     r \in 0..MaxRows, f \in {"none", "page", "addresses", "count"}}

\* ------------------------------------------------------- inputs of Search

SearchQueries == {<<>>, <<"1">>, <<"a", "v">>}

SearchInputs ==
  {[ListParams |-> [Offset |-> 0, Limit |-> l, DisableCounting |-> FALSE],
    Query |-> q] : l \in 0..MaxLimit, q \in SearchQueries}

\* What the identifier parsers answer for the query.
ParseOutcomes ==
  {[short |-> s, id |-> i, shortID |-> "a1", fullID |-> "T1"] :
     s \in BOOLEAN, i \in BOOLEAN}

\* What storage answers the readers Search calls: the number of rows of each
\* page and the one load that fails, if one does.
SearchFaults == {"none", "assets", "transactions", "dress", "addresses", "dressAddresses"}

SearchDB(ra, rt, rd, f) ==
  [assets |-> [page |-> AssetPage(ra), count |-> TotalRows,
               fault |-> IF f = "assets" THEN "page" ELSE "none"],
   transactions |-> [page |-> TxPage(rt), count |-> TotalRows,
                     fault |-> IF f = "transactions" THEN "page" ELSE "none",
                     dressFault |-> IF f = "dress" THEN "inputs" ELSE "none",
                     ledger |-> ListLedger(<<"5">>)],
   addresses |-> [page |-> AddressPage(rd), count |-> TotalRows,
                  fault |-> IF f = "addresses" THEN "page" ELSE "none",
                  dressFault |-> IF f = "dressAddresses" THEN "addresses" ELSE "none",
                  assetRows |-> AssetRows]]

\* A page of assets one row short of the largest page, the rows numbered.
LargeAssetPage == [i \in 1..(PaginationMaxLimit - 1) |-> [ID |-> i]]

\* A free-text search at the largest limit.
LargeSearchInput ==
  [ListParams |-> [Offset |-> 0, Limit |-> PaginationMaxLimit,
                   DisableCounting |-> FALSE],
   Query |-> <<"a", "v">>]

\* Storage answering it with LargeAssetPage and a few transactions and
\* addresses.
LargeSearchDBs ==
  {[SearchDB(0, rt, rd, "none") EXCEPT !.assets.page = LargeAssetPage] :
     rt \in 0..MaxRows, rd \in 0..MaxRows}

SearchDBs ==
  {SearchDB(ra, rt, rd, f) :
     ra \in 0..MaxRows, rt \in 0..MaxRows, rd \in 0..MaxRows, f \in SearchFaults}
\* ------------------------------------------------------------ the machine

NoCall == [op |-> "none"]

Init == call = NoCall

\* The call record of Aggregate.
AggregateCall(p, db, r) ==
  [op |-> "Aggregate", p |-> p, rows |-> db.rows, hist |-> r.hist, err |-> r.err,
   queries |-> r.queries, pads |-> r.pads, params |-> r.params]

\* A request of AggregateParams: of a few intervals, or at the maximum
\* interval count.
DoAggregate ==
  /\ call = NoCall
  /\ \/ \E p \in SmallParams : \E db \in AggregateDBs(p) :
          call' = AggregateCall(p, db, Aggregate(p, db))
     \/ \E p \in LargeParams : \E db \in AggregateDBs(p) :
          call' = AggregateCall(p, db, Aggregate(p, db))

DoDressTransactions ==
  /\ call = NoCall
  /\ \E txs \in Batches : \E l \in Ledgers : \E f \in DressFaults :
       LET r == dressTransactions(txs, [ledger |-> l, dressFault |-> f])
       IN  call' = [op |-> "dressTransactions", batch |-> txs, ledger |-> l,
                    fault |-> f, txs |-> r.txs, err |-> r.err,
                    queries |-> r.queries]

\* The call record of a List* reader.
ListCall(op, p, db, r) ==
  [op |-> op, p |-> p, rows |-> Len(db.page), fault |-> db.fault, db |-> db,
   list |-> r.list, err |-> r.err, queries |-> r.queries, params |-> r.p]

DoListTransactions ==
  /\ call = NoCall
  /\ \E p \in ListInputs : \E db \in TransactionDBs :
       call' = ListCall("ListTransactions", p, db, ListTransactions(p, db))

DoListAssets ==
  /\ call = NoCall
  /\ \E p \in ListInputs : \E db \in AssetDBs :
       call' = ListCall("ListAssets", p, db, ListAssets(p, db))

DoListAddresses ==
  /\ call = NoCall
  /\ \E p \in ListInputs : \E db \in AddressDBs :
       call' = ListCall("ListAddresses", p, db, ListAddresses(p, db))

DoListOutputs ==
  /\ call = NoCall
  /\ \E p \in ListInputs : \E db \in OutputDBs :
       call' = ListCall("ListOutputs", p, db, ListOutputs(p, db))

\* The call record of Search.
SearchCall(p, parse, db, r) ==
  [op |-> "Search", p |-> p, parse |-> parse, db |-> db, res |-> r.res,
   err |-> r.err, calls |-> r.calls, queries |-> r.queries]

\* A search of SearchInputs over pages of a few rows, or the free-text
\* search at the largest limit.
DoSearch ==
  /\ call = NoCall
  /\ \/ \E p \in SearchInputs : \E parse \in ParseOutcomes : \E db \in SearchDBs :
        \E r \in {Search(p, parse, db)} : call' = SearchCall(p, parse, db, r)
     \/ \E parse \in {x \in ParseOutcomes : ~x.short /\ ~x.id} :
        \E db \in LargeSearchDBs :
        \E r \in {Search(LargeSearchInput, parse, db)} :
          call' = SearchCall(LargeSearchInput, parse, db, r)

Next ==
  \/ DoSearch
  \/ DoAggregate
  \/ DoListTransactions
  \/ DoListAssets
  \/ DoListAddresses
  \/ DoListOutputs
  \/ DoDressTransactions

Spec == Init /\ [][Next]_vars

\* ------------------------------------------------------- claims: Aggregate

\* A successful Aggregate call.
AggregateReturned == call.op = "Aggregate" /\ call.err = NoErr

\* The grouped rows storage returned to the call meet the claim's conditions:
\* at most n rows, every bucket index in 0..n-1 (they are distinct and
\* ascending by construction).
RowsWithin(n) ==
  /\ Len(call.rows) <= n
  /\ \A k \in 1..Len(call.rows) : call.rows[k].Idx \in 0..(n - 1)

\* Bucket i was returned by storage.
Returned(i) == \E k \in 1..Len(call.rows) : call.rows[k].Idx = i

\* The case C1 is about: success, interval of a second or more, well-formed rows.
C1_Case ==
  /\ AggregateReturned
  /\ call.p.IntervalSize >= TicksPerSecond
  /\ RequestedIntervalCount(call.params) <= MaxAggregateIntervalCount
  /\ RowsWithin(RequestedIntervalCount(call.params))

\* Length n, position i holds index i, buckets storage did not return are zero.
C1_Shape ==
  LET n == RequestedIntervalCount(call.params)
  IN  /\ Len(call.hist.Intervals) = n
      /\ \A i \in 0..(n - 1) :
           /\ call.hist.Intervals[i + 1].Idx = i
           /\ ~Returned(i) =>
                /\ call.hist.Intervals[i + 1].TransactionVolume = <<>>
                /\ call.hist.Intervals[i + 1].TransactionCount = 0
                /\ call.hist.Intervals[i + 1].OutputCount = 0
                /\ call.hist.Intervals[i + 1].AddressCount = 0
                /\ call.hist.Intervals[i + 1].AssetCount = 0

\* C1 as stated: in that case Intervals has length n, entry i has Idx = i,
\* StartTime = startTime + i*intervalSeconds seconds and
\* EndTime = startTime + (i+1)*intervalSeconds - 1 seconds, and the buckets
\* storage did not return are present with zero counters.
C1_AsStated ==
  C1_Case =>
    /\ C1_Shape
    /\ \A i \in 0..(RequestedIntervalCount(call.params) - 1) :
         /\ call.hist.Intervals[i + 1].StartTime =
              call.params.StartTime
                + i * IntervalSeconds(call.params) * TicksPerSecond
         /\ call.hist.Intervals[i + 1].EndTime =
              call.params.StartTime
                + ((i + 1) * IntervalSeconds(call.params) - 1) * TicksPerSecond

\* C1 amended: the same, with the bucket bounds counted from startTime
\* truncated to whole seconds (its Unix time): StartTime is the instant
\* Unix(startTime) + i*intervalSeconds and EndTime the instant
\* Unix(startTime) + (i+1)*intervalSeconds - 1.
C1_IntervalsPadded ==
  C1_Case =>
    /\ C1_Shape
    /\ \A i \in 0..(RequestedIntervalCount(call.params) - 1) :
         /\ call.hist.Intervals[i + 1].StartTime =
              TimeUnix(Unix(call.params.StartTime) + i * IntervalSeconds(call.params))
         /\ call.hist.Intervals[i + 1].EndTime =
              TimeUnix(Unix(call.params.StartTime)
                         + (i + 1) * IntervalSeconds(call.params) - 1)

\* C1's case with three buckets or more of which storage returned only
\* bucket 1, for a start time that is not on a whole second.
C1_Witness ==
  /\ C1_Case
  /\ RequestedIntervalCount(call.params) = 3
  /\ Len(call.rows) = 1 /\ call.rows[1].Idx = 1
  /\ Unix(call.params.StartTime) * TicksPerSecond # call.params.StartTime

\* The exact sum of the volumes of the intervals at the positions S.
RECURSIVE SumOver(_, _)
SumOver(ivs, S) ==
  IF S = {} THEN 0
  ELSE LET i == CHOOSE x \in S : TRUE
       IN  BigIntVal(ivs[i].TransactionVolume) + SumOver(ivs, S \ {i})

\* The exact sum of the volumes of a sequence of intervals, an empty volume
\* (a padded bucket) counting as zero.
SumVolumes(ivs) ==
  SumOver(ivs, {i \in 1..Len(ivs) : ivs[i].TransactionVolume # <<>>})

\* Every volume storage returned to the call parses as a base-10 integer.
VolumesParse == \A k \in 1..Len(call.rows) : BigIntOK(call.rows[k].TransactionVolume)

\* The grand total is the decimal string of the sum of the interval volumes.
C2_TotalIsSum ==
  /\ BigIntOK(call.hist.Aggregates.TransactionVolume)
  /\ BigIntVal(call.hist.Aggregates.TransactionVolume) = SumVolumes(call.hist.Intervals)
  /\ call.hist.Aggregates.TransactionVolume = BigIntString(SumVolumes(call.hist.Intervals))

CountExceedsMax ==
  /\ call.op = "Aggregate"
  /\ call.p.IntervalSize > 0
  /\ CeilDiv(call.p.EndTime - call.params.StartTime, call.p.IntervalSize)
       > MaxAggregateIntervalCount

C4_SingleInterval ==
  (AggregateReturned /\ call.p.IntervalSize = 0) =>
    /\ call.hist.Intervals = <<>>
    /\ call.hist.Aggregates.StartTime = call.params.StartTime
    /\ call.hist.Aggregates.EndTime = call.p.EndTime
    /\ call.hist.Aggregates.TransactionVolume = call.rows[1].TransactionVolume
    /\ call.pads = 0
    /\ call.queries[Len(call.queries)] = "get_transaction_aggregates_histogram"

\* A successful call with intervalSize = 0 and a start time given.
C4_Witness ==
  /\ AggregateReturned /\ call.p.IntervalSize = 0
  /\ call.p.StartTime = BaseTime + 1
  /\ call.p.EndTime > call.p.StartTime


\* ---------------------------------------------------- claims: List readers

ListReaders == {"ListTransactions", "ListAssets", "ListAddresses", "ListOutputs"}

\* A storage query is a COUNT statement.
IsCount(q) == q.stmt = "count"

\* The call issued a COUNT query.
CountQueryIssued == \E i \in 1..Len(call.queries) : IsCount(call.queries[i])

\* A List* call that returned a list, with counting not disabled and a limit
\* of one or more.
C5_Case ==
  /\ call.op \in ListReaders
  /\ call.err = NoErr
  /\ ~call.p.ListParams.DisableCounting
  /\ call.p.ListParams.Limit >= 1

\* C5 as stated: for each of the four readers, with counting not disabled
\* and limit L >= 1, a page of exactly L rows is followed by a count query
\* whose result is the reported Count, and a page of r < L rows (r = 0
\* included) is followed by no count query and Count is offset + r.
C5_AsStated ==
  C5_Case =>
    /\ call.rows = call.p.ListParams.Limit =>
         CountQueryIssued /\ call.list.Count = call.db.count
    /\ call.rows < call.p.ListParams.Limit =>
         /\ ~CountQueryIssued
         /\ call.list.Count = call.p.ListParams.Offset + call.rows

\* ------------------------------------------------ claims: dressTransactions

\* A dressTransactions call on a batch that returned no error.
Dressed == call.op = "dressTransactions" /\ call.err = NoErr

\* The exact sum of the amounts of a set of outputs.
RECURSIVE SumAmounts(_)
SumAmounts(outs) ==
  IF outs = {} THEN 0
  ELSE LET o == CHOOSE x \in outs : TRUE
       IN  BigIntVal(o.Amount) + SumAmounts(outs \ {o})

\* The total a per-asset map of decimal strings reports for an asset.
TotalFor(counts, asset) ==
  IF asset \in DOMAIN counts THEN BigIntVal(counts[asset]) ELSE 0

\* The outputs of the ledger of an asset that a transaction owns, and those
\* it redeems.
OwnedBy(id, asset) ==
  {o \in call.ledger.outputs : o.TransactionID = id /\ o.AssetID = asset}

RedeemedBy(id, asset) ==
  {o \in call.ledger.outputs : o.RedeemingTransactionID = id /\ o.AssetID = asset}

\* C6 as stated: after a successful dressTransactions, for every transaction
\* T of the batch and every asset A, T.OutputTotals[A] is the exact sum of
\* the amounts of the distinct outputs of A owned by T and T.InputTotals[A]
\* the exact sum of the amounts of the distinct outputs of A redeemed by T,
\* for any number of addresses on an output and whether owner, redeemer or
\* both are in the batch.
C6_AsStated ==
  Dressed =>
    \A i \in 1..Len(call.txs) : \A asset \in {"A", "B"} :
      /\ TotalFor(call.txs[i].OutputTotals, asset)
           = SumAmounts(OwnedBy(call.txs[i].ID, asset))
      /\ TotalFor(call.txs[i].InputTotals, asset)
           = SumAmounts(RedeemedBy(call.txs[i].ID, asset))

\* The number of positions of a sequence that satisfy a test.
CountOf(s, Test(_)) == Cardinality({i \in 1..Len(s) : Test(s[i])})

\* The addresses entitled to an output, and those whose row carries a
\* redeeming signature.
Entitled(outputID) ==
  {a.Address : a \in {x \in call.ledger.addresses : x.OutputID = outputID}}

Signers(outputID) ==
  {a.Address : a \in {x \in call.ledger.addresses :
                        x.OutputID = outputID /\ x.Signature # ""}}

\* The Addresses of an output hold each entitled address once and no other.
AddressesOnce(out) ==
  /\ \A a \in Entitled(out.ID) :
       CountOf(out.Addresses, LAMBDA x : x = a) = 1
  /\ Len(out.Addresses) = Cardinality(Entitled(out.ID))

\* The Creds of an input hold one credential for each signer and no other.
CredentialsOnce(input) ==
  /\ \A a \in Signers(input.Output.ID) :
       CountOf(input.Creds, LAMBDA c : c.Address = a) = 1
  /\ Len(input.Creds) = Cardinality(Signers(input.Output.ID))

\* C7 as stated: after a successful dressTransactions every output attached
\* to a transaction of the batch lists each distinct entitled address exactly
\* once, and every Input carries exactly one Credential for each address
\* whose row has a signature and none for the others, also when the owning
\* and the redeeming transaction are both in the batch.
C7_AsStated ==
  Dressed =>
    \A i \in 1..Len(call.txs) :
      /\ \A j \in 1..Len(call.txs[i].Outputs) : AddressesOnce(call.txs[i].Outputs[j])
      /\ \A j \in 1..Len(call.txs[i].Inputs) :
           /\ AddressesOnce(call.txs[i].Inputs[j].Output)
           /\ CredentialsOnce(call.txs[i].Inputs[j])

\* ----------------------------------------------------------- claims: Search

\* C8: Search with an empty query returns ErrSearchQueryTooShort with no
\* reader called and no storage query issued, and Search with a query of
\* length >= 1 never returns ErrSearchQueryTooShort.
C8_QueryLength ==
  call.op = "Search" =>
    /\ Len(call.p.Query) = 0 =>
         /\ call.err = ErrSearchQueryTooShort
         /\ call.res = Nil
         /\ call.calls = <<>>
         /\ call.queries = <<>>
    /\ Len(call.p.Query) >= 1 => call.err # ErrSearchQueryTooShort

\* Search with the query "1" that went on to query storage and succeeded.
C8_Witness ==
  /\ call.op = "Search"
  /\ call.p.Query = <<"1">>
  /\ call.err = NoErr
  /\ call.queries # <<>>

\* The query of a Search call passed validation and parses as a short id.
ShortIDPath ==
  /\ call.op = "Search"
  /\ ~QueryTooShort(call.p)
  /\ call.parse.short

\* A storage query of the address lookup: the page query of ListAddresses or
\* the grouped query of dressAddresses.
AddressQuery(q) ==
  \/ q.stmt = "dress_addresses"
  \/ q.stmt = "page" /\ q.session = "list_addresses"

\* C9: whenever the query parses as a short identifier, Search calls only
\* ListAddresses, for that exact identifier, and returns its result (possibly
\* empty): no asset query and no transaction query is issued, also when the
\* lookup returns nothing and when the query parses as a full identifier too.
C9_ShortIDOnly ==
  ShortIDPath =>
    /\ Len(call.calls) = 1
    /\ call.calls[1].reader = "ListAddresses"
    /\ call.calls[1].p.ID = call.parse.shortID
    /\ call.calls[1].p.Query = <<>>
    /\ \A i \in 1..Len(call.queries) : AddressQuery(call.queries[i])
    /\ call.err = NoErr =>
         /\ Len(call.res.Results) = Len(call.db.addresses.page)
         /\ \A i \in 1..Len(call.res.Results) :
              /\ call.res.Results[i].SearchResultType = "address"
              /\ call.res.Results[i].Data.Address = call.db.addresses.page[i].Address

\* A query that parses both as a short and as a full identifier, whose
\* address lookup succeeds and returns nothing, with assets and transactions
\* that would have matched.
C9_Witness ==
  /\ ShortIDPath
  /\ call.parse.id
  /\ call.err = NoErr
  /\ call.db.addresses.page = <<>>
  /\ call.db.assets.page # <<>>
  /\ call.db.transactions.page # <<>>
  /\ call.res = ZeroSearchResults

\* The query of a Search call passed validation and parses as no identifier.
FreeTextPath ==
  /\ call.op = "Search"
  /\ ~QueryTooShort(call.p)
  /\ ~call.parse.short /\ ~call.parse.id

\* The readers Search called, in order.
Readers == [i \in 1..Len(call.calls) |-> call.calls[i].reader]

\* C10 as stated: on the free-text path the entity types are queried in the
\* order assets, transactions, addresses, each with counting disabled, and
\* once the number of results accumulated over the types queried so far
\* reaches the caller's limit no later entity type is queried.
C10_AsStated ==
  FreeTextPath =>
    /\ Readers \in {<<"ListAssets">>, <<"ListAssets", "ListTransactions">>,
                    <<"ListAssets", "ListTransactions", "ListAddresses">>}
    /\ \A i \in 1..Len(call.calls) : call.calls[i].p.ListParams.DisableCounting
    /\ \A i \in 1..Len(call.queries) : ~IsCount(call.queries[i])
    /\ Len(call.db.assets.page) >= call.p.ListParams.Limit => Len(call.calls) = 1
    /\ Len(call.db.assets.page) + Len(call.db.transactions.page)
         >= call.p.ListParams.Limit => Len(call.calls) <= 2

\* ------------------------------------------- claims: Search by identifier

\* The query of a Search call passed validation and parses as a full
\* identifier and not as a short one.
FullIDPath ==
  /\ call.op = "Search"
  /\ ~QueryTooShort(call.p)
  /\ call.parse.id /\ ~call.parse.short

\* Every entry of a sequence of search results is of one kind.
AllOfKind(results, kind) ==
  \A i \in 1..Len(results) : results[i].SearchResultType = kind

\* A storage query of the transaction lookup: the page query of
\* ListTransactions or a load of dressTransactions.
TransactionQuery(q) ==
  \/ q.stmt = "select_outputs"
  \/ q.stmt \in {"page", "count"} /\ q.session = "get_transactions"

\* C11: when the query parses as a full identifier and not as a short one,
\* Search looks up assets by that identifier first; a non-empty asset result
\* is returned alone and no transaction query is issued; only an empty asset
\* result is followed by the transaction lookup for the same identifier,
\* whose result is returned if non-empty and an empty result otherwise; the
\* address reader is never called.
C11_FullIDPath ==
  FullIDPath =>
    /\ Len(call.calls) >= 1
    /\ call.calls[1] = SubCall("ListAssets", ByIdentifier(call.parse.fullID))
    /\ \A i \in 1..Len(call.calls) : call.calls[i].reader # "ListAddresses"
    /\ \A i \in 1..Len(call.queries) : ~AddressQuery(call.queries[i])
    /\ (call.db.assets.fault = "none" /\ call.db.assets.page # <<>>) =>
         /\ Len(call.calls) = 1
         /\ \A i \in 1..Len(call.queries) : ~TransactionQuery(call.queries[i])
         /\ call.err = NoErr
         /\ Len(call.res.Results) = Len(call.db.assets.page)
         /\ AllOfKind(call.res.Results, "asset")
         /\ \A i \in 1..Len(call.res.Results) :
              call.res.Results[i].Data = call.db.assets.page[i]
    /\ call.db.assets.fault # "none" =>
         /\ Len(call.calls) = 1
         /\ \A i \in 1..Len(call.queries) : ~TransactionQuery(call.queries[i])
         /\ call.err # NoErr /\ call.res = Nil
    /\ (call.db.assets.fault = "none" /\ call.db.assets.page = <<>>) =>
         /\ Len(call.calls) = 2
         /\ call.calls[2]
              = SubCall("ListTransactions", ByIdentifier(call.parse.fullID))
         /\ call.err = NoErr =>
              /\ Len(call.res.Results) = Len(call.db.transactions.page)
              /\ AllOfKind(call.res.Results, "transaction")
              /\ \A i \in 1..Len(call.res.Results) :
                   call.res.Results[i].Data.ID = call.db.transactions.page[i].ID
              /\ call.db.transactions.page = <<>> => call.res = ZeroSearchResults

\* A full identifier that matches an asset while transactions and addresses
\* would have matched too: the asset alone is returned after one call.
C11_Witness ==
  /\ FullIDPath
  /\ call.err = NoErr
  /\ Len(call.db.assets.page) = 1
  /\ call.db.transactions.page # <<>>
  /\ call.db.addresses.page # <<>>
  /\ Len(call.calls) = 1
  /\ Len(call.res.Results) = 1

\* ------------------------------------------ claims: Aggregate, bad volumes

\* The aggregate query of the call was issued.
AggregateQueried ==
  /\ call.op = "Aggregate"
  /\ call.queries # <<>>
  /\ call.queries[Len(call.queries)] = "get_transaction_aggregates_histogram"

\* The rows the aggregate query returned to the call.
RowsLoaded ==
  LoadAggregates([rows |-> call.rows], RequestedIntervalCount(call.params))

\* A row the aggregate query returned has a volume that is no base-10 integer.
BadVolumeLoaded ==
  /\ AggregateQueried
  /\ \E k \in 1..Len(RowsLoaded) : ~BigIntOK(RowsLoaded[k].TransactionVolume)

\* C12 as stated: for every Aggregate call and every intervalSize, 0 and the
\* single-bucket path included, if the TransactionVolume of a row returned by
\* storage does not parse as a base-10 integer the call returns an error and
\* no histogram.
C12_AsStated ==
  BadVolumeLoaded => call.err # NoErr /\ call.hist = Nil

\* ------------------------------------ claims: dressTransactions, failures

\* The rows the two loads of a dressTransactions call return, merged.
MergedRows ==
  LoadOutputs(call.ledger, TxIDsOf(call.batch))
    \o LoadInputs(call.ledger, TxIDsOf(call.batch))

\* A dressTransactions call on a batch that is not empty in which a load
\* fails or a loaded row has an amount that is no base-10 integer.
DressFails ==
  /\ call.op = "dressTransactions"
  /\ call.batch # <<>>
  /\ \/ call.fault # "none"
     \/ \E i \in 1..Len(MergedRows) : ~BigIntOK(MergedRows[i].Amount)

\* A ListTransactions call whose page holds the owner of an output, in which
\* a load of the dressing fails or the output's amount is no base-10 integer.
ListDressFails ==
  /\ call.op = "ListTransactions"
  /\ call.fault = "none"
  /\ \E i \in 1..Len(call.db.page) : call.db.page[i].ID = "T1"
  /\ \/ call.db.dressFault # "none"
     \/ \E o \in call.db.ledger.outputs : ~BigIntOK(o.Amount)

\* C13: if a load of dressTransactions fails or a loaded row, at any
\* position of the merged rows, has an amount that does not parse,
\* dressTransactions returns an error and no transaction of the batch has its
\* Inputs, Outputs, InputTotals or OutputTotals changed; ListTransactions
\* then returns an error and no list.
C13_AllOrNothing ==
  /\ DressFails =>
       /\ call.err # NoErr
       /\ Len(call.txs) = Len(call.batch)
       /\ \A i \in 1..Len(call.batch) :
            /\ call.txs[i].Inputs = call.batch[i].Inputs
            /\ call.txs[i].Outputs = call.batch[i].Outputs
            /\ call.txs[i].InputTotals = call.batch[i].InputTotals
            /\ call.txs[i].OutputTotals = call.batch[i].OutputTotals
  /\ ListDressFails => call.err # NoErr /\ call.list = Nil

\* Both loads succeed and the merged rows begin with a row whose amount
\* parses, owned by a transaction of the batch, followed by one whose amount
\* does not.
C13_Witness ==
  /\ DressFails
  /\ call.fault = "none"
  /\ Len(call.batch) = 2
  /\ BigIntOK(MergedRows[1].Amount)
  /\ \E i \in 2..Len(MergedRows) : ~BigIntOK(MergedRows[i].Amount)
  /\ call.err = "invalid amount"

\* ------------------------------- claims: List readers, parameter object

\* The storage queries of a call that are of a statement.
QueriesOf(stmt) ==
  SelectSeq(call.queries, LAMBDA q : q.stmt = stmt)

\* Two parameter objects carry the same filter fields.
SameFilter(p, q) == p.ID = q.ID /\ p.Query = q.Query

\* C14: a List* call that issues the count query leaves the caller's
\* parameter object with its pagination cleared (offset, limit and the
\* disable-counting flag at their zero values) and builds the count query
\* from the filter fields the page query was built from; a List* call that
\* issues no count query leaves the parameter object as it was; either way
\* the filter fields of the parameter object are as before the call.
C14_ParameterObject ==
  call.op \in ListReaders =>
    /\ CountQueryIssued =>
         /\ call.params.ListParams.Offset = 0
         /\ call.params.ListParams.Limit = 0
         /\ call.params.ListParams.DisableCounting = FALSE
         /\ Len(QueriesOf("count")) = 1 /\ Len(QueriesOf("page")) = 1
         /\ QueriesOf("page")[1].p = call.p
         /\ SameFilter(QueriesOf("count")[1].p, QueriesOf("page")[1].p)
         /\ QueriesOf("count")[1].p.ListParams = ZeroListParams
    /\ ~CountQueryIssued => call.params = call.p
    /\ SameFilter(call.params, call.p)

\* A successful call with an offset, a limit and a query text whose page is
\* full, so that the count query is issued.
C14_Witness ==
  /\ call.op = "ListTransactions"
  /\ call.err = NoErr
  /\ CountQueryIssued
  /\ call.p.ListParams.Offset = 2 /\ call.p.ListParams.Limit = 2
  /\ call.p.Query # <<>>
  /\ call.rows = 2
  /\ call.params # call.p

\* ------------------------------------------------ claims: Search results

\* The place of an entity kind in the collated results.
KindRank(kind) ==
  CASE kind = "asset" -> 1 [] kind = "address" -> 2 [] kind = "transaction" -> 3

\* The entity kind of an entry's data, read from its fields.
KindOfData(data) ==
  IF "Address" \in DOMAIN data THEN "address"
  ELSE IF "Inputs" \in DOMAIN data THEN "transaction"
  ELSE "asset"

\* C15 as stated: for every result Search returns, on any path, Count is the
\* number of entries of Results, Count does not exceed the maximum page size,
\* and Results holds all asset entries, then all address entries, then all
\* transaction entries, each tagged with its entity kind.
C15_AsStated ==
  (call.op = "Search" /\ call.err = NoErr) =>
    /\ call.res.Count = Len(call.res.Results)
    /\ call.res.Count <= PaginationMaxLimit
    /\ \A i \in 1..Len(call.res.Results) :
         /\ call.res.Results[i].SearchResultType
              \in {"asset", "address", "transaction"}
         /\ call.res.Results[i].SearchResultType
              = KindOfData(call.res.Results[i].Data)
    /\ \A i \in 1..Len(call.res.Results) : \A j \in i..Len(call.res.Results) :
         KindRank(call.res.Results[i].SearchResultType)
           <= KindRank(call.res.Results[j].SearchResultType)
=============================================================================
